---- MODULE Spec2Model ----
(***************************************************************************)
(* Blob lifecycle and garbage-collection manager of a column shard         *)
(* (NKikimr::NColumnShard::TBlobManager, TBlobBatch); the code lives in    *)
(* src/ydb/library/yql/sql/v1/node.h, lines 1372-2016.                     *)
(* The finalizer actor of a federated query (NFq::TFinalizerActor, lines   *)
(* 2050-2131 of the same file) is modelled next to it.                     *)
(***************************************************************************)
EXTENDS Integers, Sequences, FiniteSets, TLC

\* ------------------------------------------------------------------ bounds
MaxGen == 2        \* tablet generations 1..MaxGen (one restart per generation)
MaxStep == 2       \* StartBlobBatch calls per generation
MaxBlobs == 1      \* store blobs per batch
MaxBatchBlobs == 2 \* store blobs per batch when no GC round runs
MaxSmall == 1      \* small blobs per batch
MaxUse == 2        \* readers that hold a blob in use at one time
MaxTime == 2       \* ticks of the time provider
MaxEvicted == 2    \* blobs the eviction overlay is asked about
MaxCounter == 4    \* per-generation counters a GC result may carry
MaxBlobSize == 2   \* bytes of a store blob where the sizes are told apart
MaxInFly == 2      \* pings of other actors in flight when a finalizer starts
MaxResultId == 2   \* result ids 1..MaxResultId of the query parameters
OneByte == 1       \* bytes of a store blob where they are not

\* ------------------------------------------------- controls and constants
\* the two controls, each of range [0, Max<i64>], at small values
BlobCountToTriggerGC == 2
GCIntervalSeconds == 1
FirstPerGenerationCounter == 1
PerGenerationCounterStepSize == 1

VARIABLES
    CurrentGen, CurrentStep,
    LastCollectedGenStep, NewCollectGenStep, CollectGenStepInFlight,
    AllocatedGenSteps,
    BlobsToKeep, BlobsToDelete, SmallBlobsToDelete,
    BlobsToDeleteDelayed, SmallBlobsToDeleteDelayed,
    BlobsUseCount,
    PerGroupGCListsInFlight, CounterToGroupInFlight, PerGenerationCounter,
    PreviousGCTime,
    batches,            \* the caller's TBlobBatch objects of this generation
    dbBarrier, dbKeep, dbDelete, dbSmall,      \* IBlobManagerDb
    Now,                \* AppData()->TimeProvider->Now()
    requests,           \* collect-garbage requests handed to the transport
    fatal,              \* the Y_VERIFY / Y_FAIL that aborted the process
    returned,           \* requests returned by the last call (Void when it returns none)
    saved,              \* the blobs of every batch SaveBlobBatch committed
    EvictedBlobs, DroppedEvictedBlobs,         \* blob -> EEvictState
    dbEvict,            \* IBlobManagerDb: the eviction records
    evictRet,           \* what the last eviction call returned
    finalizer,          \* the TFinalizerActor: its state function and parameters
    pinger,             \* the ping requests sent to Pinger, and how many it answered
    parent,             \* the TEvFinalizerResponse events sent to Parent
    pingCounters        \* the request counters of RT_PING

mgrVars == <<CurrentGen, CurrentStep, LastCollectedGenStep, NewCollectGenStep,
             CollectGenStepInFlight, AllocatedGenSteps, BlobsToKeep, BlobsToDelete,
             SmallBlobsToDelete, BlobsToDeleteDelayed, SmallBlobsToDeleteDelayed,
             BlobsUseCount, PerGroupGCListsInFlight, CounterToGroupInFlight,
             PerGenerationCounter, PreviousGCTime>>
dbVars == <<dbBarrier, dbKeep, dbDelete, dbSmall>>
evictVars == <<EvictedBlobs, DroppedEvictedBlobs, dbEvict, evictRet>>
finVars == <<finalizer, pinger, parent, pingCounters>>
vars == <<mgrVars, batches, dbVars, Now, requests, fatal, returned, saved, evictVars, finVars>>

\* ---------------------------------------------------------------- GenStep
\* TGenStep = std::tuple<ui32, ui32>, compared lexicographically
GenStepLess(a, b) == a[1] < b[1] \/ (a[1] = b[1] /\ a[2] < b[2])
GenStepLessEq(a, b) == a = b \/ GenStepLess(a, b)

\* ------------------------------------------------------------ blob identity
\* TUnifiedBlobId: a DS blob (TLogoBlobID + group) or a small blob
DsBlob(gen, step, cookie) == [kind |-> "ds", gen |-> gen, step |-> step, idx |-> cookie]
SmallBlob(gen, step, i) == [kind |-> "small", gen |-> gen, step |-> step, idx |-> i]
IsDsBlob(b) == b.kind = "ds"
IsSmallBlob(b) == b.kind = "small"
BlobGenStep(b) == <<b.gen, b.step>>

\* TLogoBlobID::operator< for blobs of one tablet and one channel
BlobLess(a, b) ==
    \/ GenStepLess(BlobGenStep(a), BlobGenStep(b))
    \/ (BlobGenStep(a) = BlobGenStep(b) /\ a.idx < b.idx)

\* *set.begin() of a std::set<TLogoBlobID>
SetBegin(S) == CHOOSE b \in S : \A c \in S : c = b \/ BlobLess(b, c)

\* -------------------------------------------------------------- tablet info
\* TTabletStorageInfo: the history of BLOB_CHANNEL, ordered by FromGeneration
\* group ids are ui32 values that a per-generation counter can take as well
ChannelHistory ==
    << [FromGeneration |-> 1, GroupID |-> 1],
       [FromGeneration |-> 2, GroupID |-> 2] >>

\* std::upper_bound(history, gen, gen < entry.FromGeneration): index of the
\* first entry with FromGeneration > gen, Len + 1 when there is none
UpperBound(gen) ==
    LET later == {i \in 1..Len(ChannelHistory) : gen < ChannelHistory[i].FromGeneration}
    IN  IF later = {} THEN Len(ChannelHistory) + 1
        ELSE CHOOSE i \in later : \A j \in later : i <= j

\* TTabletStorageInfo::GroupFor(channel, generation)
GroupFor(gen) ==
    LET i == UpperBound(gen)
    IN  IF i = 1 THEN ChannelHistory[1].GroupID ELSE ChannelHistory[i - 1].GroupID

\* ---------------------------------------------------------------- helpers
MapErase(m, k) == [x \in DOMAIN m \ {k} |-> m[x]]
MapPut(m, k, v) == [x \in DOMAIN m \cup {k} |-> IF x = k THEN v ELSE m[x]]
EmptyMap == [x \in {} |-> 0]

\* what a call that returns no requests leaves in "returned"
Void == -1

NoBatch == [live |-> FALSE, GenStepRef |-> FALSE, BlobSizes |-> <<>>,
            InFlight |-> <<>>, InFlightCount |-> 0, TotalSizeBytes |-> 0,
            SmallBlobs |-> 0]
EmptyLists == [KeepList |-> {}, DontKeepList |-> {},
               KeepListSkipped |-> {}, DontKeepListSkipped |-> {}]

\* ------------------------------------------------------- TAllocatedGenStep
\* Finished(): nobody but the allocation queue holds the reference; the one
\* other holder is the GenStepRef of the batch StartBlobBatch made for it
Finished(gs) ==
    ~ \E s \in DOMAIN batches :
        batches[s].live /\ batches[s].GenStepRef /\ gs = <<CurrentGen, s>>

\* Sort(AllocatedGenSteps) by GenStep
RECURSIVE SortGenSteps(_)
SortGenSteps(S) ==
    IF S = {} THEN <<>>
    ELSE LET m == CHOOSE x \in S : \A y \in S : GenStepLessEq(x, y)
         IN  <<m>> \o SortGenSteps(S \ {m})

\* the new allocation pushed with no Sort after it
InsertUnsorted(q, gs) == <<gs>> \o q

\* position-preserving insert of one more element into a sorted sequence
InsertSorted(q, gs) ==
    LET before == SelectSeq(q, LAMBDA x : GenStepLess(x, gs))
        after == SelectSeq(q, LAMBDA x : ~GenStepLess(x, gs))
    IN  before \o <<gs>> \o after

\* ------------------------------------------------------- eviction overlay
\* EEvictState
EvictStates == {"UNKNOWN", "EVICTING", "SELF_CACHED", "EXTERN"}

\* what a call of the overlay returns: its result and the out-parameter dropped
NoResult == [op |-> "none", ret |-> FALSE, dropped |-> FALSE]
Result(op, ret, dropped) == [op |-> op, ret |-> ret, dropped |-> dropped]

\* THashMap::emplace: the entry there is kept
MapEmplace(m, k, v) == IF k \in DOMAIN m THEN m ELSE MapPut(m, k, v)

\* IBlobManagerDb: UpdateEvictBlob saves the state of the record, DropEvictBlob
\* marks it dropped, EraseEvictBlob erases it, LoadEvicted reads the records
\* into the evicted and the dropped ones
UpdateEvictBlob(db, b, st) ==
    MapPut(db, b, [State |-> st,
                   Dropped |-> IF b \in DOMAIN db THEN db[b].Dropped ELSE FALSE])
DropEvictBlob(db, b, st) == MapPut(db, b, [State |-> st, Dropped |-> TRUE])
EraseEvictBlob(db, b) == MapErase(db, b)
LoadEvicted(db, dropped) ==
    [b \in {x \in DOMAIN db : db[x].Dropped = dropped} |-> db[b].State]

\* TBlobManager::ExtractEvicted: whether the table has an entry of the blob, and
\* the table without it
HasEvicted(table, b) == b \in DOMAIN table
ExtractEvicted(table, b) == MapErase(table, b)

\* TBlobManager::LoadOneToOneExport
LoadOneToOneExport ==
    /\ EvictedBlobs' = LoadEvicted(dbEvict, FALSE)
    /\ DroppedEvictedBlobs' = LoadEvicted(dbEvict, TRUE)
    /\ evictRet' = NoResult
    /\ UNCHANGED dbEvict

\* an export that does not look for the entry
AlreadyEvictingUnchecked(b) == FALSE

\* "if (EvictedBlobs.count(evict)) return false"
AlreadyEvicting(b) == HasEvicted(EvictedBlobs, b)

ExportOneToOne(b) ==
    /\ fatal = "none"
    /\ IF AlreadyEvicting(b)
       THEN /\ evictRet' = Result("ExportOneToOne", FALSE, FALSE)
            /\ UNCHANGED <<EvictedBlobs, DroppedEvictedBlobs, dbEvict>>
       ELSE /\ dbEvict' = UpdateEvictBlob(dbEvict, b, "EVICTING")
            /\ EvictedBlobs' = MapEmplace(EvictedBlobs, b, "EVICTING")
            /\ evictRet' = Result("ExportOneToOne", TRUE, FALSE)
            /\ UNCHANGED DroppedEvictedBlobs
    /\ returned' = Void
    /\ UNCHANGED <<mgrVars, batches, dbVars, Now, requests, fatal, saved, finVars>>

\* a drop that goes on without an exported entry
NotExportedIgnored(extracted) == FALSE

\* "if (!extracted) return false"
NotExported(extracted) == ~extracted

\* the state of the record DropOneToOne found: the remap of SELF_CACHED to
\* EXTERN is compiled out (#if 0)
StateWhenDropped(st) == st

DropOneToOne(b) ==
    /\ fatal = "none"
    /\ LET extracted == HasEvicted(EvictedBlobs, b)
           st == IF extracted THEN StateWhenDropped(EvictedBlobs[b]) ELSE "UNKNOWN"
       IN  IF NotExported(extracted)
           THEN /\ evictRet' = Result("DropOneToOne", FALSE, FALSE)
                /\ UNCHANGED <<EvictedBlobs, DroppedEvictedBlobs, dbEvict>>
           ELSE /\ EvictedBlobs' = ExtractEvicted(EvictedBlobs, b)
                /\ dbEvict' = DropEvictBlob(dbEvict, b, st)
                /\ DroppedEvictedBlobs' = MapEmplace(DroppedEvictedBlobs, b, st)
                /\ evictRet' = Result("DropOneToOne", TRUE, FALSE)
    /\ returned' = Void
    /\ UNCHANGED <<mgrVars, batches, dbVars, Now, requests, fatal, saved, finVars>>

\* the switch on the requested state: the two Y_VERIFY on the state found
TransitionVerified(old, new) ==
    CASE new = "SELF_CACHED" -> old = "EVICTING"
      [] new = "EXTERN" -> old \in {"EVICTING", "SELF_CACHED"}
      [] OTHER -> TRUE

\* an update that stores the requested state of a dropped blob as it is
StateOfDroppedKept(st) == st

\* "SELF_CACHED -> EXTERN for dropped"
StateOfDropped(st) == IF st = "SELF_CACHED" THEN "EXTERN" ELSE st

UpdateOneToOne(b, new) ==
    /\ fatal = "none"
    /\ LET active == HasEvicted(EvictedBlobs, b)
           dropped == ~active /\ HasEvicted(DroppedEvictedBlobs, b)
       IN  IF ~active /\ ~dropped
           THEN /\ evictRet' = Result("UpdateOneToOne", FALSE, FALSE)
                /\ UNCHANGED <<EvictedBlobs, DroppedEvictedBlobs, dbEvict, fatal>>
           ELSE LET old == IF active THEN EvictedBlobs[b] ELSE DroppedEvictedBlobs[b]
                    st == IF dropped THEN StateOfDropped(new) ELSE new
                IN  IF ~TransitionVerified(old, new)
                    THEN /\ fatal' = "UpdateOneToOne"
                         /\ UNCHANGED evictVars
                    ELSE /\ EvictedBlobs' =
                               IF dropped THEN EvictedBlobs
                               ELSE MapEmplace(ExtractEvicted(EvictedBlobs, b), b, st)
                         /\ DroppedEvictedBlobs' =
                               IF dropped
                               THEN MapEmplace(ExtractEvicted(DroppedEvictedBlobs, b), b, st)
                               ELSE DroppedEvictedBlobs
                         /\ dbEvict' = UpdateEvictBlob(dbEvict, b, st)
                         /\ evictRet' = Result("UpdateOneToOne", TRUE, dropped)
                         /\ UNCHANGED fatal
    /\ returned' = Void
    /\ UNCHANGED <<mgrVars, batches, dbVars, Now, requests, saved, finVars>>

EraseOneToOne(b) ==
    /\ fatal = "none"
    /\ dbEvict' = EraseEvictBlob(dbEvict, b)
    /\ DroppedEvictedBlobs' = MapErase(DroppedEvictedBlobs, b)
    /\ evictRet' = Result("EraseOneToOne", b \in DOMAIN DroppedEvictedBlobs, FALSE)
    /\ returned' = Void
    /\ UNCHANGED <<mgrVars, batches, dbVars, Now, requests, fatal, saved, EvictedBlobs, finVars>>

\* ------------------------------------------------------ TFinalizerActor
\* NFq::TFinalizerActor (lines 2050-2131 of the same file): the actor that
\* moves a query to its terminal state through the pinger
blobManagerVars ==
    <<mgrVars, batches, dbVars, Now, requests, fatal, returned, saved, evictVars>>

\* NYdb::NQuery::EExecStatus and FederatedQuery::QueryMeta::ComputeStatus, a
\* few values of each
ExecStatuses == {"Completed", "Failed", "Cancelled"}
ComputeStatuses == {"COMPLETING", "FAILING", "RUNNING"}
NoResultId == 0

NoActor == [state |-> "none", ExecStatus |-> "Unspecified",
            Status |-> "COMPUTE_STATUS_UNSPECIFIED", ResultId |-> NoResultId]

\* the constructor; the counters of RT_PING are shared with the other actors
\* of the query, which have inFly pings in flight
CreateFinalizerActor(execStatus, status, resultId, inFly) ==
    /\ finalizer.state = "none"
    /\ finalizer' = [state |-> "created", ExecStatus |-> execStatus,
                     Status |-> status, ResultId |-> resultId]
    /\ pinger' = [pinger EXCEPT !.others = inFly]
    /\ pingCounters' = [pingCounters EXCEPT !.InFly = inFly]
    /\ UNCHANGED <<parent, blobManagerVars>>

\* a query that completes by its execution status only
QueryCompletedByExecStatus(execStatus, status) == execStatus = "Completed"

\* "ExecStatus == EExecStatus::Completed || Params.Status == QueryMeta::COMPLETING"
QueryCompleted(execStatus, status) ==
    execStatus = "Completed" \/ status = "COMPLETING"

\* the Fq::Private::PingTaskRequest that Start fills
PingTaskRequest(a) ==
    [result_id |-> IF QueryCompleted(a.ExecStatus, a.Status)
                   THEN a.ResultId ELSE NoResultId,
     status |-> IF QueryCompleted(a.ExecStatus, a.Status)
                THEN "COMPLETED" ELSE "FAILED"]

Start ==
    /\ finalizer.state = "created"
    /\ pingCounters' = [pingCounters EXCEPT !.InFly = @ + 1]
    /\ finalizer' = [finalizer EXCEPT !.state = "StateFunc"]
    /\ pinger' = [pinger EXCEPT !.requests = Append(@, PingTaskRequest(finalizer))]
    /\ UNCHANGED <<parent, blobManagerVars>>

\* TEvYdbCompute::TEvFinalizerResponse(issues, status)
FinalizerResponse(success) ==
    IF success THEN [issues |-> 0, status |-> "SUCCESS"]
    ELSE [issues |-> 1, status |-> "INTERNAL_ERROR"]

\* Handle(TEvForwardPingResponse): the pinger answers a request once, and
\* StateFunc takes the answer; CompleteAndPassAway and FailedAndPassAway end
\* the actor
Handle(success) ==
    /\ finalizer.state = "StateFunc"
    /\ Len(pinger.answers) < Len(pinger.requests)
    /\ pinger' = [pinger EXCEPT !.answers = Append(@, success)]
    /\ pingCounters' = [pingCounters EXCEPT !.InFly = @ - 1,
                                           !.Ok = IF success THEN @ + 1 ELSE @,
                                           !.Error = IF success THEN @ ELSE @ + 1]
    /\ parent' = Append(parent, FinalizerResponse(success))
    /\ finalizer' = [finalizer EXCEPT !.state = "passed"]
    /\ UNCHANGED blobManagerVars

\* ----------------------------------------------------------- construction
\* TBlobManager::TBlobManager followed by LoadState(db), on a tablet that
\* starts generation gen with the persisted state db*
\* LoadState that does not read the persisted barrier
LoadLastGcBarrierUnread == <<0, 0>>

\* db.LoadLastGcBarrier(LastCollectedGenStep)
LoadLastGcBarrier == dbBarrier

\* a target left as constructed
NewCollectAfterLoadUnset(barrier) == <<0, 0>>

\* "NewCollectGenStep = LastCollectedGenStep"
NewCollectAfterLoad(barrier) == barrier

\* the Y_VERIFY on the blobs of the Keep table
LoadStateFails ==
    \E b \in dbKeep : ~GenStepLess(LoadLastGcBarrier, BlobGenStep(b))

LoadState(gen) ==
    /\ CurrentGen' = gen
    /\ CurrentStep' = 0
    /\ LastCollectedGenStep' = LoadLastGcBarrier
    /\ NewCollectGenStep' = NewCollectAfterLoad(LoadLastGcBarrier)
    /\ CollectGenStepInFlight' = <<0, 0>>
    /\ BlobsToKeep' = dbKeep
    /\ BlobsToDelete' = {b \in dbDelete : IsDsBlob(b)}
    /\ SmallBlobsToDelete' = {b \in dbDelete : IsSmallBlob(b)}
    /\ BlobsToDeleteDelayed' = {}
    /\ SmallBlobsToDeleteDelayed' = {}
    /\ BlobsUseCount' = EmptyMap
    /\ AllocatedGenSteps' =
          InsertSorted(SortGenSteps({BlobGenStep(b) : b \in dbKeep}), <<gen, 0>>)
    /\ PerGroupGCListsInFlight' = EmptyMap
    /\ CounterToGroupInFlight' = EmptyMap
    /\ PerGenerationCounter' = FirstPerGenerationCounter
    /\ PreviousGCTime' = 0
    /\ fatal' = IF LoadStateFails THEN "LoadState" ELSE "none"

Init ==
    /\ CurrentGen = 1
    /\ CurrentStep = 0
    /\ LastCollectedGenStep = <<0, 0>>
    /\ NewCollectGenStep = <<0, 0>>
    /\ CollectGenStepInFlight = <<0, 0>>
    /\ AllocatedGenSteps = << <<1, 0>> >>
    /\ BlobsToKeep = {}
    /\ BlobsToDelete = {}
    /\ SmallBlobsToDelete = {}
    /\ BlobsToDeleteDelayed = {}
    /\ SmallBlobsToDeleteDelayed = {}
    /\ BlobsUseCount = EmptyMap
    /\ PerGroupGCListsInFlight = EmptyMap
    /\ CounterToGroupInFlight = EmptyMap
    /\ PerGenerationCounter = FirstPerGenerationCounter
    /\ PreviousGCTime = 0
    /\ batches = [s \in 1..MaxStep |-> NoBatch]
    /\ dbBarrier = <<0, 0>>
    /\ dbKeep = {}
    /\ dbDelete = {}
    /\ dbSmall = {}
    /\ Now = 1
    /\ requests = {}
    /\ fatal = "none"
    /\ returned = Void
    /\ saved = {}
    /\ EvictedBlobs = EmptyMap
    /\ DroppedEvictedBlobs = EmptyMap
    /\ dbEvict = EmptyMap
    /\ evictRet = NoResult
    /\ finalizer = NoActor
    /\ pinger = [requests |-> <<>>, answers |-> <<>>, others |-> 0]
    /\ parent = <<>>
    /\ pingCounters = [InFly |-> 0, Ok |-> 0, Error |-> 0]

\* the tablet dies at any moment and restarts in the next generation
Restart ==
    /\ CurrentGen < MaxGen
    /\ LoadState(CurrentGen + 1)
    /\ batches' = [s \in 1..MaxStep |-> NoBatch]
    /\ requests' = {}
    /\ returned' = Void
    /\ LoadOneToOneExport
    /\ UNCHANGED <<dbVars, Now, saved, finVars>>

TimePasses ==
    /\ Now < MaxTime
    /\ Now' = Now + 1
    /\ returned' = Void
    /\ UNCHANGED <<mgrVars, batches, dbVars, requests, fatal, saved, evictVars, finVars>>

\* ------------------------------------------------------------- TBlobBatch
BatchGenStep(s) == <<CurrentGen, s>>
\* a blob id that leaves out the cookie
MakeBlobIdNoCookie(s, i) == DsBlob(CurrentGen, s, 0)

\* TBatchInfo::MakeBlobId(i), TBatchInfo::MakeSmallBlobId(i); i counts from 0
MakeBlobId(s, i) == DsBlob(CurrentGen, s, i)
MakeSmallBlobId(s, i) == SmallBlob(CurrentGen, s, i)
GetBlobCount(s) == Len(batches[s].InFlight)
AllBlobWritesCompleted(s) == batches[s].InFlightCount = 0

StartBlobBatch ==
    /\ fatal = "none"
    /\ CurrentStep' = CurrentStep + 1
    /\ AllocatedGenSteps' = Append(AllocatedGenSteps, <<CurrentGen, CurrentStep + 1>>)
    /\ batches' = [batches EXCEPT ![CurrentStep + 1] =
                      [live |-> TRUE, GenStepRef |-> TRUE, BlobSizes |-> <<>>,
                       InFlight |-> <<>>, InFlightCount |-> 0, TotalSizeBytes |-> 0,
                       SmallBlobs |-> 0]]
    /\ returned' = Void
    /\ UNCHANGED <<CurrentGen, LastCollectedGenStep, NewCollectGenStep,
                   CollectGenStepInFlight, BlobsToKeep, BlobsToDelete,
                   SmallBlobsToDelete, BlobsToDeleteDelayed, SmallBlobsToDeleteDelayed,
                   BlobsUseCount, PerGroupGCListsInFlight, CounterToGroupInFlight,
                   PerGenerationCounter, PreviousGCTime,
                   dbVars, Now, requests, fatal, saved, evictVars, finVars>>

\* a total that the size of a new store blob does not reach
TotalAfterUnchanged(total, blobSize) == total

\* "TotalSizeBytes += blobSize"
TotalAfter(total, blobSize) == total + blobSize

\* TBlobBatch::SendWriteBlobRequest -> TBatchInfo::NextBlobId(blobData.size())
SendWriteBlobRequestOfSize(s, blobSize) ==
    /\ fatal = "none"
    /\ batches[s].live
    /\ batches' = [batches EXCEPT ![s].BlobSizes = Append(@, blobSize),
                                  ![s].InFlight = Append(@, TRUE),
                                  ![s].InFlightCount = @ + 1,
                                  ![s].TotalSizeBytes = TotalAfter(@, blobSize)]
    /\ returned' = Void
    /\ UNCHANGED <<mgrVars, dbVars, Now, requests, fatal, saved, evictVars, finVars>>

\* the write of a blob of one byte
SendWriteBlobRequest(s) == SendWriteBlobRequestOfSize(s, OneByte)

\* TBlobBatch::AddSmallBlob -> TBatchInfo::AddSmallBlob
AddSmallBlob(s) ==
    /\ fatal = "none"
    /\ batches[s].live
    /\ batches' = [batches EXCEPT ![s].SmallBlobs = @ + 1]
    /\ returned' = Void
    /\ UNCHANGED <<mgrVars, dbVars, Now, requests, fatal, saved, evictVars, finVars>>

\* TBlobBatch::OnBlobWriteResult for the put-result of a blob of cookie i (from
\* 0): the cookie is all it reads of the blob id. InFlight[i] beyond the vector
\* is undefined: the read aborts or yields either value, and the write, if
\* reached, is to no flag of the batch
OnBlobWriteResult(s, i) ==
    /\ fatal = "none"
    /\ batches[s].live
    /\ IF i < GetBlobCount(s)
       THEN IF batches[s].InFlight[i + 1]
            THEN /\ batches' = [batches EXCEPT ![s].InFlight[i + 1] = FALSE,
                                               ![s].InFlightCount = @ - 1]
                 /\ fatal' = IF batches[s].InFlightCount - 1 >= 0 THEN "none"
                             ELSE "OnBlobWriteResult"
            ELSE /\ fatal' = "OnBlobWriteResult"
                 /\ UNCHANGED batches
       ELSE \/ /\ fatal' = "OnBlobWriteResult"
               /\ UNCHANGED batches
            \/ /\ batches' = [batches EXCEPT ![s].InFlightCount = @ - 1]
               /\ fatal' = IF batches[s].InFlightCount - 1 >= 0 THEN "none"
                           ELSE "OnBlobWriteResult"
    /\ returned' = Void
    /\ UNCHANGED <<mgrVars, dbVars, Now, requests, saved, evictVars, finVars>>

\* the transport answers each put once: the result of a write still in flight
PutResult(s, i) ==
    /\ i < GetBlobCount(s)
    /\ batches[s].InFlight[i + 1]
    /\ OnBlobWriteResult(s, i)

\* TBlobBatch::~TBlobBatch: the batch is dropped without SaveBlobBatch
DestroyBlobBatch(s) ==
    /\ fatal = "none"
    /\ batches[s].live
    /\ batches' = [batches EXCEPT ![s] = NoBatch]
    /\ returned' = Void
    /\ UNCHANGED <<mgrVars, dbVars, Now, requests, fatal, saved, evictVars, finVars>>

\* the blobs SaveBlobBatch puts in the Keep queue, and the small blobs it writes
BatchBlobs(s) == {MakeBlobId(s, i) : i \in 0..(GetBlobCount(s) - 1)}
BatchSmallBlobs(s) == {MakeSmallBlobId(s, i) : i \in 0..(batches[s].SmallBlobs - 1)}

\* blob_manager.h: "at this point all blob writes must be already acknowledged"
SaveBlobBatchAllowed(s) == AllBlobWritesCompleted(s)

SaveBlobBatch(s) ==
    /\ fatal = "none"
    /\ batches[s].live
    /\ SaveBlobBatchAllowed(s)
    /\ BlobsToKeep' = BlobsToKeep \cup BatchBlobs(s)
    /\ dbKeep' = dbKeep \cup BatchBlobs(s)
    /\ dbSmall' = dbSmall \cup BatchSmallBlobs(s)
    \* GenStepRef.Reset(); the batch was moved in and is gone with the call
    /\ batches' = [batches EXCEPT ![s] = NoBatch]
    /\ saved' = saved \cup BatchBlobs(s) \cup BatchSmallBlobs(s)
    /\ returned' = Void
    /\ UNCHANGED <<CurrentGen, CurrentStep, LastCollectedGenStep, NewCollectGenStep,
                   CollectGenStepInFlight, AllocatedGenSteps, BlobsToDelete,
                   SmallBlobsToDelete, BlobsToDeleteDelayed, SmallBlobsToDeleteDelayed,
                   BlobsUseCount, PerGroupGCListsInFlight, CounterToGroupInFlight,
                   PerGenerationCounter, PreviousGCTime,
                   dbBarrier, dbDelete, Now, requests, fatal, evictVars, finVars>>

\* the loop without the break at an unfinished allocation
RECURSIVE PopFinishedNoBreak(_, _)
PopFinishedNoBreak(q, new) ==
    IF q = <<>> THEN [queue |-> q, new |-> new, verify |-> TRUE]
    ELSE PopFinishedNoBreak(Tail(q), Head(q))

\* ------------------------------------------------------- TryMoveGCBarrier
\* the loop over the front of AllocatedGenSteps; "verify" names a failed Y_VERIFY
RECURSIVE PopFinished(_, _)
PopFinished(q, new) ==
    IF q = <<>> THEN [queue |-> q, new |-> new, verify |-> TRUE]
    ELSE IF ~Finished(Head(q)) THEN [queue |-> q, new |-> new, verify |-> TRUE]
    ELSE IF ~GenStepLess(CollectGenStepInFlight, Head(q))
         THEN [queue |-> q, new |-> new, verify |-> FALSE]
    ELSE PopFinished(Tail(q), Head(q))

\* the target set to the current GenStep whatever is left in the queue
TargetAfterPopAlwaysCurrent(queue, new) == <<CurrentGen, CurrentStep>>

\* "if (AllocatedGenSteps.empty()) NewCollectGenStep = {CurrentGen, CurrentStep}"
TargetAfterPop(queue, new) ==
    IF queue = <<>> THEN <<CurrentGen, CurrentStep>> ELSE new

\* the three early returns of TryMoveGCBarrier
RoundInFlightUnchecked == FALSE
RoundInFlight == DOMAIN PerGroupGCListsInFlight # {}
NothingToCollect ==
    /\ BlobsToKeep = {}
    /\ BlobsToDelete = {}
    /\ LastCollectedGenStep = <<CurrentGen, CurrentStep>>

\* a round proposed whatever the queues hold and the time is
GCDelayedNever == FALSE

\* "Delay GC if there are to few blobs and last GC was not long ago"
GCDelayed ==
    /\ Cardinality(BlobsToKeep) < BlobCountToTriggerGC
    /\ Cardinality(BlobsToDelete) < BlobCountToTriggerGC
    /\ PreviousGCTime + GCIntervalSeconds > Now

\* what TryMoveGCBarrier returns and what it leaves in AllocatedGenSteps and
\* NewCollectGenStep
TryMoveGCBarrier ==
    LET same == [ret |-> FALSE, queue |-> AllocatedGenSteps,
                 new |-> NewCollectGenStep, verify |-> TRUE]
    IN  IF RoundInFlight THEN same
        ELSE IF NothingToCollect THEN same
        ELSE IF GCDelayed THEN same
        ELSE IF ~GenStepLessEq(LastCollectedGenStep, NewCollectGenStep)
             THEN [same EXCEPT !.verify = FALSE]
        ELSE LET p == PopFinished(AllocatedGenSteps, NewCollectGenStep)
                 new == TargetAfterPop(p.queue, p.new)
             IN  [ret |-> GenStepLess(LastCollectedGenStep, new), queue |-> p.queue,
                  new |-> new, verify |-> p.verify]

\* ---------------------------------------------- PreparePerGroupGCRequests
\* the loop without the break at an entry behind the target
PeelUpToEnd(S, target) == S

\* while (!set.empty()) { it = begin(); if (GenStep(it) > target) break; ... erase(it) }
RECURSIVE PeelUpTo(_, _)
PeelUpTo(S, target) ==
    IF S = {} THEN {}
    ELSE LET b == SetBegin(S)
         IN  IF GenStepLess(target, BlobGenStep(b)) THEN {}
             ELSE {b} \cup PeelUpTo(S \ {b}, target)

\* the search that does not step back to the entry in front of the range
HistoryGroupsFromUpperBound(fromGen, toGen) ==
    {ChannelHistory[i].GroupID : i \in UpperBound(fromGen)..(UpperBound(toGen) - 1)}

\* the groups of the channel history between the generations of the old and
\* the new barrier
HistoryGroups(fromGen, toGen) ==
    LET ub == UpperBound(fromGen)
        fromIt == IF ub # 1 THEN ub - 1 ELSE ub
        toIt == UpperBound(toGen)
    IN  {ChannelHistory[i].GroupID : i \in fromIt..(toIt - 1)}

\* PerGroupGCListsInFlight[group], which makes the entry when there is none
ListsOf(lists, g) == IF g \in DOMAIN lists THEN lists[g] ELSE EmptyLists

\* "Add all blobs to keep"
RECURSIVE AddKeep(_, _)
AddKeep(lists, S) ==
    IF S = {} THEN lists
    ELSE LET b == SetBegin(S)
             g == GroupFor(b.gen)
             l == ListsOf(lists, g)
         IN  AddKeep(MapPut(lists, g, [l EXCEPT !.KeepList = @ \cup {b}]), S \ {b})

\* "Add all blobs to delete"
\* the pass that leaves a deleted blob in the Keep list
ListsWithDeleteKeepKept(l, b) ==
    LET inKeep == b \in l.KeepList
        canSkipDontKeep == inKeep /\ CurrentGen = b.gen
    IN  IF ~canSkipDontKeep
        THEN [l EXCEPT !.DontKeepList = @ \cup {b}]
        ELSE [l EXCEPT !.DontKeepListSkipped = @ \cup {b}]

\* the pass that skips the DontKeep flag for a blob of any generation
ListsWithDeleteSkipAnyGen(l, b) ==
    LET inKeep == b \in l.KeepList
        l1 == IF inKeep
              THEN [l EXCEPT !.KeepList = @ \ {b}, !.KeepListSkipped = @ \cup {b}]
              ELSE l
    IN  IF ~inKeep
        THEN [l1 EXCEPT !.DontKeepList = @ \cup {b}]
        ELSE [l1 EXCEPT !.DontKeepListSkipped = @ \cup {b}]

\* one pass of the loop: the lists l of the blob's group after blob b
ListsWithDelete(l, b) ==
    LET inKeep == b \in l.KeepList
        canSkipDontKeep == inKeep /\ CurrentGen = b.gen
        l1 == IF inKeep
              THEN [l EXCEPT !.KeepList = @ \ {b}, !.KeepListSkipped = @ \cup {b}]
              ELSE l
    IN  IF ~canSkipDontKeep
        THEN [l1 EXCEPT !.DontKeepList = @ \cup {b}]
        ELSE [l1 EXCEPT !.DontKeepListSkipped = @ \cup {b}]

RECURSIVE AddDelete(_, _)
AddDelete(lists, S) ==
    IF S = {} THEN lists
    ELSE LET b == SetBegin(S)
             g == GroupFor(b.gen)
         IN  AddDelete(MapPut(lists, g, ListsWithDelete(ListsOf(lists, g), b)), S \ {b})

\* the per-group lists of a round with the given target
BuildLists(target) ==
    LET empty == [g \in HistoryGroups(LastCollectedGenStep[1], target[1]) |-> EmptyLists]
        keep == PeelUpTo(BlobsToKeep, target)
        del == PeelUpTo(BlobsToDelete, target)
    IN  AddDelete(AddKeep(empty, keep), del)

\* the orders in which "for (const auto& gl : PerGroupGCListsInFlight)" may
\* visit the groups of a THashMap: position 0..n-1 of each group
IterationOrders(groups) ==
    {f \in [groups -> 0..(Cardinality(groups) - 1)] :
        \A g, h \in groups : g # h => f[g] # f[h]}

\* a counter that the requests do not advance
CounterAfterStuck(counter, n) == counter

\* "PerGenerationCounter += requests[group]->PerGenerationCounterStepSize()":
\* the counter after n requests were made
CounterAfter(counter, n) == counter + n * PerGenerationCounterStepSize

PreparePerGroupGCRequests ==
    /\ fatal = "none"
    /\ LET t == TryMoveGCBarrier
       IN  IF ~t.verify
           THEN /\ fatal' = "TryMoveGCBarrier"
                /\ returned' = 0
                /\ UNCHANGED <<mgrVars, requests>>
           ELSE IF ~t.ret
           THEN /\ AllocatedGenSteps' = t.queue
                /\ NewCollectGenStep' = t.new
                /\ returned' = 0
                /\ UNCHANGED <<CurrentGen, CurrentStep, LastCollectedGenStep,
                               CollectGenStepInFlight, BlobsToKeep, BlobsToDelete,
                               SmallBlobsToDelete, BlobsToDeleteDelayed,
                               SmallBlobsToDeleteDelayed, BlobsUseCount,
                               PerGroupGCListsInFlight, CounterToGroupInFlight,
                               PerGenerationCounter, PreviousGCTime,
                               requests, fatal>>
           ELSE LET lists == BuildLists(t.new)
                    groups == DOMAIN lists
                IN  \E order \in IterationOrders(groups) :
                    /\ AllocatedGenSteps' = t.queue
                    /\ NewCollectGenStep' = t.new
                    /\ PreviousGCTime' = Now
                    /\ CollectGenStepInFlight' = t.new
                    /\ PerGroupGCListsInFlight' = lists
                    /\ BlobsToKeep' = BlobsToKeep \ PeelUpTo(BlobsToKeep, t.new)
                    /\ BlobsToDelete' = BlobsToDelete \ PeelUpTo(BlobsToDelete, t.new)
                    /\ CounterToGroupInFlight' =
                          [c \in DOMAIN CounterToGroupInFlight \cup
                                 {CounterAfter(PerGenerationCounter, order[g])
                                      : g \in groups} |->
                              IF \E g \in groups :
                                    c = CounterAfter(PerGenerationCounter, order[g])
                              THEN CHOOSE g \in groups :
                                    c = CounterAfter(PerGenerationCounter, order[g])
                              ELSE CounterToGroupInFlight[c]]
                    /\ PerGenerationCounter' =
                          CounterAfter(PerGenerationCounter, Cardinality(groups))
                    /\ requests' = requests \cup
                          {[counter |-> CounterAfter(PerGenerationCounter, order[g]),
                            group |-> g,
                            gen |-> CurrentGen,
                            collect |-> t.new,
                            Keep |-> lists[g].KeepList,
                            DontKeep |-> lists[g].DontKeepList] : g \in groups}
                    /\ returned' = Cardinality(groups)
                    /\ UNCHANGED <<CurrentGen, CurrentStep, LastCollectedGenStep,
                                   SmallBlobsToDelete, BlobsToDeleteDelayed,
                                   SmallBlobsToDeleteDelayed, BlobsUseCount, fatal>>
    /\ UNCHANGED <<batches, dbVars, Now, saved, evictVars, finVars>>

\* ------------------------------------------------- small blobs, delayed deletes
\* PerformDelayedDeletes: DeleteSmallBlob and EraseBlobToDelete for each blob of
\* SmallBlobsToDelete, then SmallBlobsToDelete.clear(); the small-blob table and
\* the Delete table that result from the tables given
DelayedDeletesSmall(small) == small \ SmallBlobsToDelete
DelayedDeletesDelete(delete) == delete \ SmallBlobsToDelete

\* ------------------------------------------------------------- OnGCResult
\* the barrier moved at the first acknowledgment
AllRequestsDoneAtFirst(lists) == TRUE

\* "All requests done?": PerGroupGCListsInFlight.empty() after the erase
AllRequestsDone(lists) == DOMAIN lists = {}

\* the three Y_VERIFY at the head of OnGCResult
CounterKnown(counter) ==
    /\ DOMAIN CounterToGroupInFlight # {}
    /\ DOMAIN PerGroupGCListsInFlight # {}
    /\ counter \in DOMAIN CounterToGroupInFlight

\* OnGCResult for a result that carries the given counter. find(group) == end()
\* is dereferenced and erased unchecked, which is undefined: the process is
\* lost there, or it goes on with lists that hold no blob
OnGCResult(counter) ==
    /\ fatal = "none"
    /\ requests' = {r \in requests : r.counter # counter}
    /\ returned' = Void
    /\ IF ~CounterKnown(counter)
       THEN /\ fatal' = "OnGCResult"
            /\ UNCHANGED <<mgrVars, dbVars>>
       ELSE IF CounterToGroupInFlight[counter] \notin DOMAIN PerGroupGCListsInFlight
       THEN \/ /\ fatal' = "OnGCResult"
               /\ UNCHANGED <<mgrVars, dbVars>>
            \/ /\ dbDelete' = DelayedDeletesDelete(dbDelete)
               /\ dbSmall' = DelayedDeletesSmall(dbSmall)
               /\ SmallBlobsToDelete' = {}
               /\ CounterToGroupInFlight' =
                     MapErase(CounterToGroupInFlight, CounterToGroupInFlight[counter])
               /\ UNCHANGED <<CurrentGen, CurrentStep, LastCollectedGenStep,
                              NewCollectGenStep, CollectGenStepInFlight,
                              AllocatedGenSteps, BlobsToKeep, BlobsToDelete,
                              BlobsToDeleteDelayed, SmallBlobsToDeleteDelayed,
                              BlobsUseCount, PerGroupGCListsInFlight,
                              PerGenerationCounter, PreviousGCTime, fatal,
                              dbBarrier, dbKeep>>
       ELSE LET group == CounterToGroupInFlight[counter]
                l == PerGroupGCListsInFlight[group]
                lists == MapErase(PerGroupGCListsInFlight, group)
                done == AllRequestsDone(lists)
            IN  /\ dbKeep' = dbKeep \ (l.KeepList \cup l.KeepListSkipped)
                /\ dbDelete' = DelayedDeletesDelete(
                                   dbDelete \ (l.DontKeepList \cup l.DontKeepListSkipped))
                /\ dbSmall' = DelayedDeletesSmall(dbSmall)
                /\ SmallBlobsToDelete' = {}
                /\ PerGroupGCListsInFlight' = lists
                \* CounterToGroupInFlight.erase(group)
                /\ CounterToGroupInFlight' = MapErase(CounterToGroupInFlight, group)
                /\ LastCollectedGenStep' =
                      IF done THEN CollectGenStepInFlight ELSE LastCollectedGenStep
                /\ dbBarrier' = IF done THEN CollectGenStepInFlight ELSE dbBarrier
                /\ UNCHANGED <<CurrentGen, CurrentStep, NewCollectGenStep,
                               CollectGenStepInFlight, AllocatedGenSteps, BlobsToKeep,
                               BlobsToDelete, BlobsToDeleteDelayed,
                               SmallBlobsToDeleteDelayed, BlobsUseCount,
                               PerGenerationCounter, PreviousGCTime, fatal>>
    /\ UNCHANGED <<batches, Now, saved, evictVars, finVars>>

\* ------------------------------------------------------------- DeleteBlob
UseCount(b) == IF b \in DOMAIN BlobsUseCount THEN BlobsUseCount[b] ELSE 0

\* a deletion that keeps its intent in memory only
AddBlobToDeleteOmitted(delete, b) == delete

\* db.AddBlobToDelete(blobId): the Delete table with the record of the blob
AddBlobToDelete(delete, b) == delete \cup {b}

DeleteBlob(b) ==
    /\ fatal = "none"
    /\ IF IsSmallBlob(b)
       THEN IF b \notin DOMAIN BlobsUseCount
            THEN \* DeleteSmallBlob(blobId, db)
                 /\ dbSmall' = DelayedDeletesSmall(dbSmall) \ {b}
                 /\ dbDelete' = DelayedDeletesDelete(dbDelete)
                 /\ UNCHANGED SmallBlobsToDeleteDelayed
            ELSE /\ dbSmall' = DelayedDeletesSmall(dbSmall)
                 /\ dbDelete' = AddBlobToDelete(DelayedDeletesDelete(dbDelete), b)
                 /\ SmallBlobsToDeleteDelayed' = SmallBlobsToDeleteDelayed \cup {b}
       ELSE /\ dbSmall' = DelayedDeletesSmall(dbSmall)
            /\ dbDelete' = AddBlobToDelete(DelayedDeletesDelete(dbDelete), b)
            /\ UNCHANGED SmallBlobsToDeleteDelayed
    /\ IF IsSmallBlob(b)
       THEN UNCHANGED <<BlobsToDelete, BlobsToDeleteDelayed>>
       ELSE IF b \notin DOMAIN BlobsUseCount
            THEN /\ BlobsToDelete' = BlobsToDelete \cup {b}
                 /\ UNCHANGED BlobsToDeleteDelayed
            ELSE /\ BlobsToDeleteDelayed' = BlobsToDeleteDelayed \cup {b}
                 /\ UNCHANGED BlobsToDelete
    /\ SmallBlobsToDelete' = {}
    /\ returned' = Void
    /\ UNCHANGED <<CurrentGen, CurrentStep, LastCollectedGenStep, NewCollectGenStep,
                   CollectGenStepInFlight, AllocatedGenSteps, BlobsToKeep,
                   BlobsUseCount, PerGroupGCListsInFlight, CounterToGroupInFlight,
                   PerGenerationCounter, PreviousGCTime,
                   batches, dbBarrier, dbKeep, Now, requests, fatal, saved, evictVars, finVars>>

\* ----------------------------------------------------------- SetBlobInUse
\* a blob released by one of two readers taken for unused
StillInUseAboveOne(count) == count > 1

\* an entry kept in the table when its count reaches zero
StillInUseAtZero(count) == count >= 0

\* "if (useIt->second > 0) return", on the count after the decrement
StillInUse(count) == count > 0

\* the check turned around: the release of a blob in use refused
UnknownBlobInverted(b) == b \in DOMAIN BlobsUseCount

\* "Y_VERIFY(useIt != BlobsUseCount.end(), Trying to un-use an unknown blob)"
UnknownBlob(b) == b \notin DOMAIN BlobsUseCount

SetBlobInUse(b, inUse) ==
    /\ fatal = "none"
    /\ IF inUse
       THEN /\ BlobsUseCount' = MapPut(BlobsUseCount, b, UseCount(b) + 1)
            /\ UNCHANGED <<BlobsToDelete, SmallBlobsToDelete, BlobsToDeleteDelayed,
                           SmallBlobsToDeleteDelayed, fatal>>
       ELSE IF UnknownBlob(b)
       THEN /\ fatal' = "SetBlobInUse"
            /\ UNCHANGED <<BlobsUseCount, BlobsToDelete, SmallBlobsToDelete,
                           BlobsToDeleteDelayed, SmallBlobsToDeleteDelayed>>
       ELSE IF StillInUse(UseCount(b) - 1)
       THEN /\ BlobsUseCount' = [BlobsUseCount EXCEPT ![b] = @ - 1]
            /\ UNCHANGED <<BlobsToDelete, SmallBlobsToDelete, BlobsToDeleteDelayed,
                           SmallBlobsToDeleteDelayed, fatal>>
       ELSE /\ BlobsUseCount' = MapErase(BlobsUseCount, b)
            /\ IF IsSmallBlob(b)
               THEN /\ SmallBlobsToDeleteDelayed' = SmallBlobsToDeleteDelayed \ {b}
                    /\ SmallBlobsToDelete' =
                          IF b \in SmallBlobsToDeleteDelayed
                          THEN SmallBlobsToDelete \cup {b} ELSE SmallBlobsToDelete
                    /\ UNCHANGED <<BlobsToDelete, BlobsToDeleteDelayed>>
               ELSE /\ BlobsToDeleteDelayed' = BlobsToDeleteDelayed \ {b}
                    /\ BlobsToDelete' =
                          IF b \in BlobsToDeleteDelayed
                          THEN BlobsToDelete \cup {b} ELSE BlobsToDelete
                    /\ UNCHANGED <<SmallBlobsToDelete, SmallBlobsToDeleteDelayed>>
            /\ UNCHANGED fatal
    /\ returned' = Void
    /\ UNCHANGED <<CurrentGen, CurrentStep, LastCollectedGenStep, NewCollectGenStep,
                   CollectGenStepInFlight, AllocatedGenSteps, BlobsToKeep,
                   PerGroupGCListsInFlight, CounterToGroupInFlight,
                   PerGenerationCounter, PreviousGCTime,
                   batches, dbVars, Now, requests, saved, evictVars, finVars>>

\* the readers that hold a blob of S in use
RECURSIVE Readers(_)
Readers(S) ==
    IF S = {} THEN 0
    ELSE LET b == CHOOSE x \in S : TRUE
         IN  BlobsUseCount[b] + Readers(S \ {b})

\* a reader takes a blob in use, at most MaxUse readers at a time
StartUse(b) == Readers(DOMAIN BlobsUseCount) < MaxUse /\ SetBlobInUse(b, TRUE)
\* a reader that took the blob in use releases it
EndUse(b) == b \in DOMAIN BlobsUseCount /\ SetBlobInUse(b, FALSE)

\* ------------------------------------------------------- specifications
\* the caller starts at most MaxStep batches in a generation
NewBatch == CurrentStep < MaxStep /\ StartBlobBatch
\* ... and writes at most max store blobs and MaxSmall small blobs in a batch
WriteBlob(s, max) == GetBlobCount(s) < max /\ SendWriteBlobRequest(s)
WriteSmallBlob(s) == batches[s].SmallBlobs < MaxSmall /\ AddSmallBlob(s)

\* the caller deletes a store blob it committed
DeleteStoreBlob(b) == IsDsBlob(b) /\ DeleteBlob(b)

\* batches of store blobs, GC rounds, deletions and restarts
Next ==
    \/ Restart
    \/ TimePasses
    \/ NewBatch
    \/ \E s \in 1..MaxStep : WriteBlob(s, MaxBlobs)
    \/ \E s \in 1..MaxStep, i \in 0..(MaxBatchBlobs - 1) : PutResult(s, i)
    \/ \E s \in 1..MaxStep : DestroyBlobBatch(s)
    \/ \E s \in 1..MaxStep : SaveBlobBatch(s)
    \/ PreparePerGroupGCRequests
    \/ \E c \in {r.counter : r \in requests} : OnGCResult(c)
    \/ \E b \in saved : DeleteStoreBlob(b)

Spec == Init /\ [][Next]_vars

\* batches of store blobs and small blobs across restarts, no GC round
NextBatch ==
    \/ Restart
    \/ NewBatch
    \/ \E s \in 1..MaxStep : WriteBlob(s, MaxBatchBlobs)
    \/ \E s \in 1..MaxStep : WriteSmallBlob(s)
    \/ \E s \in 1..MaxStep, i \in 0..(MaxBatchBlobs - 1) : PutResult(s, i)
    \/ \E s \in 1..MaxStep : DestroyBlobBatch(s)
    \/ \E s \in 1..MaxStep : SaveBlobBatch(s)

SpecBatch == Init /\ [][NextBatch]_vars

\* the put-result of any blob id handed to any batch: of its own blobs in flight
\* or acknowledged, of the blobs of another batch, of a cookie beyond its blobs
PutResultIds ==
    {DsBlob(CurrentGen, t, i) : t \in 1..MaxStep, i \in 0..MaxBatchBlobs}

PutResultOf(s, b) == OnBlobWriteResult(s, b.idx)

NextAck ==
    \/ Restart
    \/ NewBatch
    \/ \E s \in 1..MaxStep : WriteBlob(s, MaxBatchBlobs)
    \/ \E s \in 1..MaxStep, b \in PutResultIds : PutResultOf(s, b)

SpecAck == Init /\ [][NextAck]_vars

\* readers, deletions and GC rounds within one generation
NextUse ==
    \/ TimePasses
    \/ NewBatch
    \/ \E s \in 1..MaxStep : WriteBlob(s, MaxBlobs)
    \/ \E s \in 1..MaxStep : WriteSmallBlob(s)
    \/ \E s \in 1..MaxStep, i \in 0..(MaxBatchBlobs - 1) : PutResult(s, i)
    \/ \E s \in 1..MaxStep : SaveBlobBatch(s)
    \/ PreparePerGroupGCRequests
    \/ \E c \in {r.counter : r \in requests} : OnGCResult(c)
    \/ \E b \in saved : DeleteBlob(b)
    \/ \E b \in saved : StartUse(b)
    \/ \E b \in saved : EndUse(b)

SpecUse == Init /\ [][NextUse]_vars

\* readers and deletions with no GC round, and releases of any committed blob,
\* in use or not
Release(b) == SetBlobInUse(b, FALSE)

NextRelease ==
    \/ NewBatch
    \/ \E s \in 1..MaxStep : WriteBlob(s, MaxBlobs)
    \/ \E s \in 1..MaxStep : WriteSmallBlob(s)
    \/ \E s \in 1..MaxStep, i \in 0..(MaxBatchBlobs - 1) : PutResult(s, i)
    \/ \E s \in 1..MaxStep : SaveBlobBatch(s)
    \/ \E b \in saved : DeleteBlob(b)
    \/ \E b \in saved : StartUse(b)
    \/ \E b \in saved : Release(b)

SpecRelease == Init /\ [][NextRelease]_vars

\* batches and GC rounds across restarts, where the transport answers every
\* collect-garbage request it was handed
GCResultDelivered == \E c \in {r.counter : r \in requests} : OnGCResult(c)

NextLive ==
    \/ Restart
    \/ NewBatch
    \/ \E s \in 1..MaxStep : WriteBlob(s, MaxBlobs)
    \/ \E s \in 1..MaxStep, i \in 0..(MaxBatchBlobs - 1) : PutResult(s, i)
    \/ \E s \in 1..MaxStep : SaveBlobBatch(s)
    \/ PreparePerGroupGCRequests
    \/ GCResultDelivered

SpecLive == Init /\ [][NextLive]_vars /\ WF_vars(GCResultDelivered)

\* GC rounds of one generation with results of any counter: of an outstanding
\* request, of a request acknowledged before, of none
GCResultOf(c) == OnGCResult(c)

NextGC ==
    \/ TimePasses
    \/ NewBatch
    \/ \E s \in 1..MaxStep : WriteBlob(s, MaxBatchBlobs)
    \/ \E s \in 1..MaxStep, i \in 0..(MaxBatchBlobs - 1) : PutResult(s, i)
    \/ \E s \in 1..MaxStep : SaveBlobBatch(s)
    \/ PreparePerGroupGCRequests
    \/ \E c \in 1..MaxCounter : GCResultOf(c)

SpecGC == Init /\ [][NextGC]_vars

\* one generation of batches with store blobs of any size, small blobs and
\* the put-results of the batches' own blobs, acknowledged before or not
WriteBlobOfSize(s, blobSize) ==
    GetBlobCount(s) < MaxBatchBlobs /\ SendWriteBlobRequestOfSize(s, blobSize)
AckOf(s, i) == i < GetBlobCount(s) /\ OnBlobWriteResult(s, i)

NextSize ==
    \/ NewBatch
    \/ \E s \in 1..MaxStep, blobSize \in 0..MaxBlobSize : WriteBlobOfSize(s, blobSize)
    \/ \E s \in 1..MaxStep : WriteSmallBlob(s)
    \/ \E s \in 1..MaxStep, i \in 0..(MaxBatchBlobs - 1) : AckOf(s, i)

SpecSize == Init /\ [][NextSize]_vars

\* one finalizer actor from its construction to its end
NextFinal ==
    \/ \E execStatus \in ExecStatuses, status \in ComputeStatuses,
          resultId \in 1..MaxResultId, inFly \in 0..MaxInFly :
            CreateFinalizerActor(execStatus, status, resultId, inFly)
    \/ Start
    \/ \E success \in BOOLEAN : Handle(success)

SpecFinal == Init /\ [][NextFinal]_vars

\* the eviction overlay: the exports, drops, updates and erases of a few blobs
\* in any order and with any requested state, across restarts
EvictedBlobIds == {DsBlob(1, 1, i) : i \in 0..(MaxEvicted - 1)}

NextEvict ==
    \/ Restart
    \/ \E b \in EvictedBlobIds : ExportOneToOne(b)
    \/ \E b \in EvictedBlobIds : DropOneToOne(b)
    \/ \E b \in EvictedBlobIds, st \in EvictStates : UpdateOneToOne(b, st)
    \/ \E b \in EvictedBlobIds : EraseOneToOne(b)

SpecEvict == Init /\ [][NextEvict]_vars

\* ----------------------------------------------------------------- claims
\* the blobs in a list of a group of the round in flight
InFlightLists(field) ==
    UNION {PerGroupGCListsInFlight[g][field] : g \in DOMAIN PerGroupGCListsInFlight}

\* a step of PreparePerGroupGCRequests that built a round
BuildsRound == PreparePerGroupGCRequests /\ returned' > 0

\* C1: the barrier LastCollectedGenStep, in memory and as persisted, never
\* decreases in the (generation, step) order, in any step of the manager and
\* across a restart that loads the state in a higher generation
C1_BarrierNeverDecreases ==
    [][/\ GenStepLessEq(LastCollectedGenStep, LastCollectedGenStep')
       /\ GenStepLessEq(dbBarrier, dbBarrier')]_vars

\* a round of generation 1 moved the barrier to (1, 1), and the manager of
\* generation 2 has loaded it and built no round yet
C1_Witness ==
    /\ CurrentGen = 2
    /\ PerGenerationCounter = FirstPerGenerationCounter
    /\ LastCollectedGenStep = <<1, 1>>
    /\ dbBarrier = <<1, 1>>

\* C2: the barrier and the frozen target of the round are strictly less than
\* the GenStep of every batch that still holds its AllocatedGenStep
C2_BarrierBelowUnfinished ==
    \A s \in 1..MaxStep :
        (batches[s].live /\ batches[s].GenStepRef) =>
            /\ GenStepLess(LastCollectedGenStep, BatchGenStep(s))
            /\ GenStepLess(CollectGenStepInFlight, BatchGenStep(s))

\* a round went up to step 1 and completed while the batch of step 2 is unfinished
C2_Witness ==
    /\ batches[2].live /\ batches[2].GenStepRef
    /\ CollectGenStepInFlight = <<CurrentGen, 1>>
    /\ LastCollectedGenStep = <<CurrentGen, 1>>

C4_SingleRoundInFlight ==
    [][/\ (PreparePerGroupGCRequests /\ DOMAIN PerGroupGCListsInFlight # {}) =>
              (returned' = 0 /\ UNCHANGED <<mgrVars, requests, dbVars, batches>>)
       /\ \A r, q \in requests' : r.collect = q.collect]_vars

\* PreparePerGroupGCRequests returned nothing while one of two requests of a
\* round was not acknowledged
C4_Witness ==
    /\ returned = 0
    /\ CurrentGen = 2
    /\ PerGenerationCounter = FirstPerGenerationCounter + 2
    /\ Cardinality(DOMAIN PerGroupGCListsInFlight) = 1
    /\ Cardinality(requests) = 1

\* C5: LastCollectedGenStep changes only in the OnGCResult step that removes the
\* last group of the round, where it becomes CollectGenStepInFlight and is
\* persisted; a step that leaves a group unacknowledged leaves the barrier, in
\* memory and persisted, as it was
C5_BarrierMovesWithLastGroup ==
    [][/\ (LastCollectedGenStep' # LastCollectedGenStep \/ dbBarrier' # dbBarrier) =>
              /\ \E c \in {r.counter : r \in requests} : OnGCResult(c)
              /\ Cardinality(DOMAIN PerGroupGCListsInFlight) = 1
              /\ DOMAIN PerGroupGCListsInFlight' = {}
              /\ LastCollectedGenStep' = CollectGenStepInFlight
              /\ dbBarrier' = CollectGenStepInFlight
       /\ (DOMAIN PerGroupGCListsInFlight' # {}) =>
              UNCHANGED <<LastCollectedGenStep, dbBarrier>>]_vars

\* the second acknowledgment of a round of two groups moved the barrier
C5_Witness ==
    /\ DOMAIN PerGroupGCListsInFlight = {}
    /\ requests = {}
    /\ CurrentGen = 2
    /\ LastCollectedGenStep = CollectGenStepInFlight
    /\ dbBarrier = <<2, 1>>
    /\ PerGenerationCounter = FirstPerGenerationCounter + 2

\* C6: a blob in both the Keep and the Delete queue when a round is built is
\* in no Keep set of the round, and in no DontKeep set when its generation is
\* CurrentGen; the Keep and DontKeep sets of a request are disjoint
C6_KeptAndDeletedNotKept ==
    [][/\ BuildsRound =>
              \A b \in BlobsToKeep \cap BlobsToDelete :
                  \A r \in requests' \ requests :
                      /\ b \notin r.Keep
                      /\ (b.gen = CurrentGen => b \notin r.DontKeep)
       /\ \A r \in requests' : r.Keep \cap r.DontKeep = {}
       /\ \A g \in DOMAIN PerGroupGCListsInFlight' :
              PerGroupGCListsInFlight'[g].KeepList
                  \cap PerGroupGCListsInFlight'[g].DontKeepList = {}]_vars

\* a round was built with a blob of this generation in both queues
C6_Witness ==
    /\ returned > 0
    /\ \E b \in InFlightLists("DontKeepListSkipped") :
           /\ b.gen = CurrentGen
           /\ b \in InFlightLists("KeepListSkipped")

\* C7: a blob of an older generation in both the Keep and the Delete queue when a
\* round is built is in the DontKeep set of the request to its group; a
\* DontKeep is skipped for blobs of the current generation only
C7_OldGenerationDontKeepSent ==
    [][/\ BuildsRound =>
              \A b \in BlobsToKeep \cap BlobsToDelete :
                  b.gen < CurrentGen =>
                      \E r \in requests' \ requests :
                          r.group = GroupFor(b.gen) /\ b \in r.DontKeep
       /\ \A g \in DOMAIN PerGroupGCListsInFlight' :
              \A b \in PerGroupGCListsInFlight'[g].DontKeepListSkipped :
                  b.gen = CurrentGen]_vars

\* after a restart a round was built with a blob of generation 1 in both queues
C7_Witness ==
    /\ returned > 0
    /\ CurrentGen = 2
    /\ \E r \in requests :
           \E b \in r.DontKeep :
               /\ b.gen = 1
               /\ b \in PerGroupGCListsInFlight[r.group].KeepListSkipped

\* C8: with no GC round built, the Keep queue and the persisted Keep table hold
\* exactly the store blobs of the committed batches, no blob of an uncommitted
\* batch and no small blob, and the store blob ids allocated are pairwise distinct
StoreBlobsSaved == {b \in saved : IsDsBlob(b)}

C8_KeepQueueIsCommitted ==
    /\ BlobsToKeep = StoreBlobsSaved
    /\ dbKeep = StoreBlobsSaved
    /\ \A b \in BlobsToKeep \cup dbKeep : IsDsBlob(b)
    /\ \A s \in 1..MaxStep :
           batches[s].live =>
               /\ BatchBlobs(s) \cap (BlobsToKeep \cup dbKeep) = {}
               /\ Cardinality(BatchBlobs(s)) = GetBlobCount(s)
               /\ \A t \in 1..MaxStep :
                      (t # s /\ batches[t].live) => BatchBlobs(s) \cap BatchBlobs(t) = {}

\* two batches were committed in generation 1, one with two store blobs and a
\* small blob, and a batch of generation 2 has allocated two store blobs
C8_Witness ==
    /\ CurrentGen = 2
    /\ Cardinality({b \in BlobsToKeep : b.gen = 1}) >= 3
    /\ \E b \in saved : IsSmallBlob(b)
    /\ \E s \in 1..MaxStep : batches[s].live /\ GetBlobCount(s) = 2

\* the blobs in the DontKeep set of a request handed to the transport
RequestedDontKeep == UNION {r.DontKeep : r \in requests}

\* C9: a blob that DeleteBlob found in use is, until its use count drains to
\* zero, not in the active Delete queue (BlobsToDelete, SmallBlobsToDelete), in
\* no emitted DontKeep set, and its small-blob payload is not erased
C9_DelayedNotDeleted ==
    \A b \in BlobsToDeleteDelayed \cup SmallBlobsToDeleteDelayed :
        /\ UseCount(b) >= 1
        /\ b \notin BlobsToDelete \cup SmallBlobsToDelete
        /\ b \notin RequestedDontKeep
        /\ IsSmallBlob(b) => b \in dbSmall

\* C10: no blob with a non-zero use count is in the active Delete queue or in
\* the DontKeep set of an emitted request
C10_InUseNotDeleted ==
    \A b \in DOMAIN BlobsUseCount :
        BlobsUseCount[b] # 0 =>
            /\ b \notin BlobsToDelete \cup SmallBlobsToDelete
            /\ b \notin RequestedDontKeep

C12_UseCountsPositive ==
    [][/\ \A b \in DOMAIN BlobsUseCount' : BlobsUseCount'[b] >= 1
       /\ \A b \in saved :
              /\ StartUse(b) => UseCount(b)' = UseCount(b) + 1
              /\ (EndUse(b) /\ UseCount(b) = 1) => b \notin DOMAIN BlobsUseCount'
              /\ (EndUse(b) /\ UseCount(b) > 1) =>
                     UseCount(b)' = UseCount(b) - 1]_vars

\* a small blob deleted in use was released by its last reader, while another
\* blob is in use
C12_Witness ==
    /\ \E b \in SmallBlobsToDelete : b \notin DOMAIN BlobsUseCount
    /\ \E c \in DOMAIN BlobsUseCount : BlobsUseCount[c] = 1

\* C13: a restart into a higher generation while a round is in flight reloads
\* in BlobsToKeep / BlobsToDelete every store blob of a Keep, DontKeep,
\* keep-skipped or delete-skipped list of a group not yet acknowledged and of the
\* in-memory Keep queue, Delete queue and delayed-delete set, and the barrier
\* loaded is the persisted one
C13_CrashReloadsQueues ==
    [][(Restart /\ DOMAIN PerGroupGCListsInFlight # {}) =>
          /\ InFlightLists("KeepList") \cup InFlightLists("KeepListSkipped")
                 \cup BlobsToKeep \subseteq BlobsToKeep'
          /\ InFlightLists("DontKeepList") \cup InFlightLists("DontKeepListSkipped")
                 \cup BlobsToDelete \cup BlobsToDeleteDelayed \subseteq BlobsToDelete'
          /\ LastCollectedGenStep' = dbBarrier
          /\ dbBarrier' = dbBarrier]_vars

\* C14: with every emitted request acknowledged once, a round that
\* PreparePerGroupGCRequests started in a generation completes in that generation
\* unless the tablet restarts: PerGroupGCListsInFlight becomes empty with
\* LastCollectedGenStep at the frozen target of the round
C14_RoundCompletes ==
    \A g \in 1..MaxGen, st \in 0..MaxStep :
        (CurrentGen = g /\ DOMAIN PerGroupGCListsInFlight # {}
            /\ CollectGenStepInFlight = <<g, st>>)
        ~> (\/ CurrentGen # g
            \/ (DOMAIN PerGroupGCListsInFlight = {} /\ LastCollectedGenStep = <<g, st>>))

\* the state of a blob in an eviction table, "absent" with no entry
StateIn(table, b) == IF b \in DOMAIN table THEN table[b] ELSE "absent"

C16_DropRemapsSelfCached ==
    [][\A b \in EvictedBlobIds :
          (DropOneToOne(b) /\ StateIn(EvictedBlobs, b) # "absent") =>
              /\ StateIn(EvictedBlobs', b) = "absent"
              /\ StateIn(DroppedEvictedBlobs', b) # "absent"
              /\ (StateIn(EvictedBlobs, b) = "SELF_CACHED"
                    /\ StateIn(DroppedEvictedBlobs, b) = "absent") =>
                     /\ StateIn(DroppedEvictedBlobs', b) = "EXTERN"
                     /\ b \in DOMAIN dbEvict'
                     /\ dbEvict'[b] = [State |-> "EXTERN", Dropped |-> TRUE]]_vars

\* the transitions of 4.6: EVICTING -> SELF_CACHED, EVICTING -> EXTERN and
\* SELF_CACHED -> EXTERN
LegalTransitions ==
    {<<"EVICTING", "SELF_CACHED">>, <<"EVICTING", "EXTERN">>, <<"SELF_CACHED", "EXTERN">>}

\* the state UpdateOneToOne finds: that of the active entry, else of the dropped
StateFound(b) ==
    IF b \in DOMAIN EvictedBlobs THEN EvictedBlobs[b] ELSE StateIn(DroppedEvictedBlobs, b)

\* C17: UpdateOneToOne of a blob of the active or the dropped table returns true
\* for the three legal transitions only; with any other pair of the state found
\* and the state requested (a requested UNKNOWN or EVICTING among them) it is a
\* fatal contract violation and no eviction record is stored
C17_OnlyLegalTransitions ==
    [][\A b \in EvictedBlobIds, new \in EvictStates :
          (UpdateOneToOne(b, new) /\ StateFound(b) # "absent") =>
              IF <<StateFound(b), new>> \in LegalTransitions
              THEN fatal' = "none" /\ evictRet'.ret
              ELSE /\ fatal' # "none"
                   /\ UNCHANGED <<EvictedBlobs, DroppedEvictedBlobs, dbEvict>>]_vars

\* C18: ExportOneToOne of a blob that has an entry in the active eviction table
\* returns false and leaves the active table, the dropped table and the
\* persisted eviction records as they are; of a blob with no such entry it
\* returns true and records the blob as EVICTING
C18_ExportOnceOnly ==
    [][\A b \in EvictedBlobIds :
          ExportOneToOne(b) =>
              IF b \in DOMAIN EvictedBlobs
              THEN /\ evictRet' = Result("ExportOneToOne", FALSE, FALSE)
                   /\ UNCHANGED <<EvictedBlobs, DroppedEvictedBlobs, dbEvict>>
              ELSE /\ evictRet' = Result("ExportOneToOne", TRUE, FALSE)
                   /\ StateIn(EvictedBlobs', b) = "EVICTING"
                   /\ b \in DOMAIN dbEvict' /\ dbEvict'[b].State = "EVICTING"]_vars

C18_Witness ==
    /\ evictRet = Result("ExportOneToOne", FALSE, FALSE)
    /\ \E b \in EvictedBlobIds : StateIn(EvictedBlobs, b) = "SELF_CACHED"
    /\ \E b \in EvictedBlobIds : StateIn(EvictedBlobs, b) = "EVICTING"

\* C19: DropOneToOne of a blob that has no entry in the active eviction table
\* returns false and leaves the active table, the dropped table and the
\* persisted eviction records as they are
C19_DropOfNotExported ==
    [][\A b \in EvictedBlobIds :
          (DropOneToOne(b) /\ b \notin DOMAIN EvictedBlobs) =>
              /\ evictRet' = Result("DropOneToOne", FALSE, FALSE)
              /\ UNCHANGED <<EvictedBlobs, DroppedEvictedBlobs, dbEvict>>]_vars

C19_Witness ==
    /\ evictRet = Result("DropOneToOne", FALSE, FALSE)
    /\ \E b \in EvictedBlobIds :
           /\ StateIn(EvictedBlobs, b) = "absent"
           /\ StateIn(DroppedEvictedBlobs, b) = "EVICTING"

\* the blob was allocated by the batch of step s and its write is in flight
InFlightIn(s, b) ==
    /\ BlobGenStep(b) = BatchGenStep(s)
    /\ b.idx < GetBlobCount(s)
    /\ batches[s].InFlight[b.idx + 1]

\* C20: OnBlobWriteResult of a batch for a blob whose write is in flight in that
\* batch clears the flag of the blob and decrements the in-flight count; for a
\* blob the batch has acknowledged already, or never allocated (a blob of
\* another batch, a cookie beyond its blobs), it is a fatal contract violation
\* and no flag and no count of any batch changes
C20_AckOnlyOwnInFlight ==
    [][\A s \in 1..MaxStep, b \in PutResultIds :
          PutResultOf(s, b) =>
              IF InFlightIn(s, b)
              THEN /\ fatal' = "none"
                   /\ batches' = [batches EXCEPT ![s].InFlight[b.idx + 1] = FALSE,
                                                 ![s].InFlightCount = @ - 1]
              ELSE /\ fatal' # "none"
                   /\ UNCHANGED batches]_vars

\* the counters of the requests emitted and not yet answered
Outstanding == {r.counter : r \in requests}

\* C21: OnGCResult with a counter that is not that of an unanswered request of
\* the round in flight (no round in flight, a counter never issued, a counter of
\* a request acknowledged before) is a fatal contract violation: it erases no
\* persisted entry, takes no group out of the in-flight set and leaves the
\* barrier where it is
C21_UnknownCounterIsFatal ==
    [][\A c \in 1..MaxCounter :
          (GCResultOf(c) /\ c \notin Outstanding) =>
              /\ fatal' # "none"
              /\ UNCHANGED <<dbVars, PerGroupGCListsInFlight, LastCollectedGenStep>>]_vars

\* C22: SetBlobInUse(id, false) for a blob with no entry in the use-count table
\* is a fatal contract violation that changes neither the table nor the Delete
\* and delayed-delete sets; for a blob with an entry it is none
C22_ReleaseOfUnknownIsFatal ==
    [][\A b \in saved :
          /\ (Release(b) /\ b \notin DOMAIN BlobsUseCount) =>
                 /\ fatal' # "none"
                 /\ UNCHANGED <<BlobsUseCount, BlobsToDelete, SmallBlobsToDelete,
                                BlobsToDeleteDelayed, SmallBlobsToDeleteDelayed>>
          /\ (Release(b) /\ b \in DOMAIN BlobsUseCount) => fatal' = "none"]_vars

C22_Witness ==
    /\ fatal = "SetBlobInUse"
    /\ \E b \in saved : b \notin DOMAIN BlobsUseCount /\ b \in BlobsToDelete
    /\ DOMAIN BlobsUseCount # {}

\* C23 as stated: every DeleteBlob call leaves a delete-intent record of the
\* blob in persistence, for store blobs and small blobs alike and whatever the
\* use count
C23_EveryDeleteAddsRecord ==
    [][\A b \in saved : DeleteBlob(b) => b \in dbDelete']_vars

\* C23 as amended: a DeleteBlob call of a store blob, or of a small blob that is
\* in use, adds the delete-intent record of the blob to persistence within the
\* call; the call for a small blob that is not in use erases its payload at once
\* and adds no record
C23_DeleteAddsRecordUnlessSmallUnused ==
    [][\A b \in saved :
          DeleteBlob(b) =>
              IF IsSmallBlob(b) /\ b \notin DOMAIN BlobsUseCount
              THEN b \notin dbSmall' /\ (b \notin dbDelete => b \notin dbDelete')
              ELSE b \in dbDelete']_vars

C23_Witness ==
    /\ \E b \in saved : IsSmallBlob(b) /\ b \in dbDelete /\ b \in SmallBlobsToDeleteDelayed
    /\ \E b \in saved : IsDsBlob(b) /\ b \in dbDelete /\ b \in BlobsToDeleteDelayed

\* the interval of the control has elapsed since the previous round started
IntervalElapsed == Now >= PreviousGCTime + GCIntervalSeconds

\* C24 as stated: a round is built only if the count of pending entries of a
\* queue exceeds BlobCountToTriggerGC or GCIntervalSeconds have elapsed since
\* the previous round started; when neither holds PreparePerGroupGCRequests
\* returns no request and changes no state of the manager
C24_RoundOnlyAboveThreshold ==
    [][/\ BuildsRound =>
              \/ Cardinality(BlobsToKeep) > BlobCountToTriggerGC
              \/ Cardinality(BlobsToDelete) > BlobCountToTriggerGC
              \/ IntervalElapsed
       /\ (PreparePerGroupGCRequests
              /\ ~(Cardinality(BlobsToKeep) > BlobCountToTriggerGC)
              /\ ~(Cardinality(BlobsToDelete) > BlobCountToTriggerGC)
              /\ ~IntervalElapsed) =>
              (returned' = 0 /\ UNCHANGED <<mgrVars, requests, dbVars>>)]_vars

\* C24 as amended: a round is built only if a queue holds at least
\* BlobCountToTriggerGC entries or GCIntervalSeconds have elapsed since the
\* previous round started; when neither holds PreparePerGroupGCRequests returns
\* no request and changes no state of the manager
C24_RoundOnlyAtThreshold ==
    [][/\ BuildsRound =>
              \/ Cardinality(BlobsToKeep) >= BlobCountToTriggerGC
              \/ Cardinality(BlobsToDelete) >= BlobCountToTriggerGC
              \/ IntervalElapsed
       /\ (PreparePerGroupGCRequests
              /\ Cardinality(BlobsToKeep) < BlobCountToTriggerGC
              /\ Cardinality(BlobsToDelete) < BlobCountToTriggerGC
              /\ ~IntervalElapsed) =>
              (returned' = 0 /\ UNCHANGED <<mgrVars, requests, dbVars>>)]_vars

\* a second round built at the time of the first, for the entries of the queue
C24_Witness ==
    /\ RoundInFlight
    /\ returned > 0
    /\ LastCollectedGenStep # <<0, 0>>
    /\ PreviousGCTime = Now /\ Now < GCIntervalSeconds + 1
    /\ Cardinality(InFlightLists("KeepList")) = BlobCountToTriggerGC

\* the blobs of the given lists of the groups in flight other than g
OtherInFlightLists(g, fields) ==
    UNION {PerGroupGCListsInFlight[h][f] :
               h \in DOMAIN PerGroupGCListsInFlight \ {g}, f \in fields}

\* C25: when OnGCResult acknowledges a group, exactly the blobs of its Keep and
\* keep-skipped lists are erased from the persisted Keep table and exactly those
\* of its DontKeep and delete-skipped lists from the persisted Delete table, the
\* group leaves the in-flight set, and the persisted rows of the groups still
\* unacknowledged and of the blobs still in the in-memory queues stay
C25_AckErasesGroupRowsOnly ==
    [][\A c \in Outstanding :
          (OnGCResult(c) /\ fatal' = "none") =>
              LET g == CounterToGroupInFlight[c]
                  l == PerGroupGCListsInFlight[g]
              IN  /\ dbKeep \ dbKeep' = l.KeepList \cup l.KeepListSkipped
                  /\ dbDelete \ dbDelete' = l.DontKeepList \cup l.DontKeepListSkipped
                  /\ dbKeep' \subseteq dbKeep /\ dbDelete' \subseteq dbDelete
                  /\ g \notin DOMAIN PerGroupGCListsInFlight'
                  /\ (OtherInFlightLists(g, {"KeepList", "KeepListSkipped"})
                          \cup BlobsToKeep) \cap dbKeep \subseteq dbKeep'
                  /\ (OtherInFlightLists(g, {"DontKeepList", "DontKeepListSkipped"})
                          \cup BlobsToDelete \cup BlobsToDeleteDelayed)
                          \cap dbDelete \subseteq dbDelete']_vars

\* C26: the counters given to the collect-garbage requests of a manager instance
\* increase strictly: each request of a round takes a counter at or above the
\* PerGenerationCounter the round found, the counter ranges of the requests of
\* the round do not overlap and end at or below the PerGenerationCounter the
\* round leaves, which no later step of the instance lowers, so no two requests
\* of one round or of two rounds share a counter
C26_CountersStrictlyIncrease ==
    [][/\ BuildsRound =>
              LET new == requests' \ requests
              IN  /\ Cardinality(new) = returned'
                  /\ \A r \in new :
                         /\ r.counter >= PerGenerationCounter
                         /\ r.counter + PerGenerationCounterStepSize
                                <= PerGenerationCounter'
                  /\ \A r, q \in new :
                         r # q =>
                             \/ r.counter + PerGenerationCounterStepSize <= q.counter
                             \/ q.counter + PerGenerationCounterStepSize <= r.counter
       /\ CurrentGen' = CurrentGen => PerGenerationCounter' >= PerGenerationCounter
       /\ \A r \in requests' : r.counter < PerGenerationCounter']_vars

C26_Witness ==
    /\ \E r \in requests : r.counter = 3 /\ r.gen = 2
    /\ PerGenerationCounter = 4
    /\ fatal = "none"

\* the blobs in the Keep and DontKeep sets of the requests handed to the transport
RequestedBlobs == UNION {r.Keep \cup r.DontKeep : r \in requests}

\* C27: no small blob is ever in BlobsToKeep, in BlobsToDelete or in the Keep or
\* DontKeep set of an emitted request, and an operation that erases the payload
\* of a small blob from the small-blob table leaves no delete-intent record of
\* that blob in persistence
C27_SmallBlobsBypassRounds ==
    [][/\ \A b \in BlobsToKeep' \cup BlobsToDelete' \cup RequestedBlobs' : IsDsBlob(b)
       /\ \A b \in dbSmall \ dbSmall' : b \notin dbDelete']_vars

\* positions of AllocatedGenSteps whose allocation a batch still holds
UnfinishedAt == {i \in 1..Len(AllocatedGenSteps) : ~Finished(AllocatedGenSteps[i])}
EarliestUnfinished == CHOOSE i \in UnfinishedAt : \A j \in UnfinishedAt : i <= j
QueueFrom(i) == SubSeq(AllocatedGenSteps, i, Len(AllocatedGenSteps))

\* C28 as stated: a round proposed while the queue holds an unfinished
\* allocation has the GenStep of the earliest unfinished allocation as its
\* target, and the queue has lost exactly the allocations in front of it
C28_TargetIsEarliestUnfinished ==
    [][(BuildsRound /\ UnfinishedAt # {}) =>
          /\ CollectGenStepInFlight' = AllocatedGenSteps[EarliestUnfinished]
          /\ AllocatedGenSteps' = QueueFrom(EarliestUnfinished)]_vars

\* C28: a round proposed while the queue holds an unfinished allocation has as
\* its target the GenStep of the last finished allocation in front of the
\* earliest unfinished one (the target proposed before when there is none),
\* which is strictly less than the GenStep of the earliest unfinished
\* allocation, and the queue has lost exactly the allocations in front of it
C28_TargetIsLastFinishedInFront ==
    [][(BuildsRound /\ UnfinishedAt # {}) =>
          LET i == EarliestUnfinished
          IN  /\ CollectGenStepInFlight' =
                     (IF i > 1 THEN AllocatedGenSteps[i - 1] ELSE NewCollectGenStep)
              /\ GenStepLess(CollectGenStepInFlight', AllocatedGenSteps[i])
              /\ AllocatedGenSteps' = QueueFrom(i)]_vars

\* a round up to step 1 is in flight, the finished allocation of step 1 is
\* popped and the unfinished allocation of step 2 heads the queue
C28_Witness ==
    /\ RoundInFlight /\ returned > 0
    /\ CollectGenStepInFlight = <<CurrentGen, 1>>
    /\ AllocatedGenSteps = <<(<<CurrentGen, 2>>)>>
    /\ ~Finished(<<CurrentGen, 2>>)

\* the acknowledgment of the last outstanding request of a round, with no
\* restart in between
LastAcknowledged ==
    /\ RoundInFlight
    /\ requests # {} /\ requests' = {}
    /\ CurrentGen' = CurrentGen

\* C29: a round proposed while no allocation of the queue is unfinished has
\* the current GenStep {CurrentGen, CurrentStep} as its target and leaves the
\* allocation queue empty, and when the last group of such a round has
\* acknowledged the barrier equals the target of the round
C29_EmptyQueueTargetsCurrent ==
    [][/\ (BuildsRound /\ UnfinishedAt = {}) =>
              /\ CollectGenStepInFlight' = <<CurrentGen, CurrentStep>>
              /\ AllocatedGenSteps' = <<>>
       /\ (LastAcknowledged /\ AllocatedGenSteps = <<>>) =>
              /\ LastCollectedGenStep' = CollectGenStepInFlight
              /\ dbBarrier' = CollectGenStepInFlight]_vars

\* the blobs of the per-group Keep, DontKeep and skipped lists in flight
ListedBlobs ==
    InFlightLists("KeepList") \cup InFlightLists("DontKeepList")
        \cup InFlightLists("KeepListSkipped") \cup InFlightLists("DontKeepListSkipped")
QueuedBlobs == BlobsToKeep \cup BlobsToDelete

\* C30: right after PreparePerGroupGCRequests started a round every blob left
\* in BlobsToKeep and BlobsToDelete has a GenStep strictly greater than
\* CollectGenStepInFlight, every blob of a per-group Keep, DontKeep or skipped
\* list has a GenStep at or before it, and every blob that was in a queue is
\* either still queued or in a list, never both and never neither
C30_PeelExactlyUpToTarget ==
    [][BuildsRound =>
          /\ \A b \in QueuedBlobs' :
                GenStepLess(CollectGenStepInFlight', BlobGenStep(b))
          /\ \A b \in ListedBlobs' :
                GenStepLessEq(BlobGenStep(b), CollectGenStepInFlight')
          /\ QueuedBlobs' \cup ListedBlobs' = QueuedBlobs
          /\ QueuedBlobs' \cap ListedBlobs' = {}]_vars

\* a round in flight that took a blob into a list and left a blob of a later
\* GenStep in the Keep queue
C30_Witness ==
    /\ RoundInFlight /\ returned > 0
    /\ ListedBlobs # {}
    /\ BlobsToKeep # {}

\* the groups of the history entries that cover a generation of fromGen..toGen:
\* an entry covers the generations from its FromGeneration up to the next
\* entry's
CoveringGroups(fromGen, toGen) ==
    {ChannelHistory[i].GroupID : i \in
        {j \in 1..Len(ChannelHistory) :
            /\ ChannelHistory[j].FromGeneration <= toGen
            /\ (j = Len(ChannelHistory)
                   \/ ChannelHistory[j + 1].FromGeneration > fromGen)}}
ListsOfGroup(g) ==
    PerGroupGCListsInFlight[g].KeepList \cup PerGroupGCListsInFlight[g].DontKeepList
        \cup PerGroupGCListsInFlight[g].KeepListSkipped
        \cup PerGroupGCListsInFlight[g].DontKeepListSkipped
EmittedRequests == requests' \ requests

\* C31: in a constructed round every blob is in the lists of the group
\* GroupFor gives for its generation, one request is emitted for each group of
\* PerGroupGCListsInFlight and carries the frozen target, and every group whose
\* history entry covers a generation between that of the barrier and that of
\* the target gets a request, with or without blobs
C31_OneRequestPerGroupOfRange ==
    [][BuildsRound =>
          /\ \A g \in DOMAIN PerGroupGCListsInFlight' :
                \A b \in ListsOfGroup(g)' : GroupFor(b.gen) = g
          /\ {r.group : r \in EmittedRequests} = DOMAIN PerGroupGCListsInFlight'
          /\ \A r, q \in EmittedRequests : r.group = q.group => r = q
          /\ \A r \in EmittedRequests : r.collect = CollectGenStepInFlight'
          /\ CoveringGroups(LastCollectedGenStep[1], CollectGenStepInFlight'[1])
                 \subseteq {r.group : r \in EmittedRequests}]_vars

\* a round from a barrier of generation 1 to a target of generation 2 with a
\* request for either group, the one of group 1 with no blob
C31_Witness ==
    /\ RoundInFlight /\ returned = 2
    /\ LastCollectedGenStep[1] = 1 /\ CollectGenStepInFlight[1] = 2
    /\ \E r \in requests : r.group = 1 /\ r.Keep = {} /\ r.DontKeep = {}
                              /\ r.collect = CollectGenStepInFlight
    /\ \E r \in requests : r.group = 2 /\ r.collect = CollectGenStepInFlight

StrictlyAscending(q) ==
    \A i, j \in 1..Len(q) : i < j => GenStepLess(q[i], q[j])

\* C32: AllocatedGenSteps is strictly ascending by GenStep in every state,
\* right after LoadState too, and each StartBlobBatch makes a batch with the
\* GenStep {CurrentGen, CurrentStep + 1}, which is strictly greater than the
\* GenStep of every allocation and of every batch made before
C32_BatchGenStepsAscend ==
    /\ []StrictlyAscending(AllocatedGenSteps)
    /\ [][StartBlobBatch =>
             LET new == <<CurrentGen, CurrentStep + 1>>
             IN  /\ batches'[CurrentStep + 1].live
                 /\ batches'[CurrentStep + 1].GenStepRef
                 /\ <<CurrentGen', CurrentStep'>> = new
                 /\ AllocatedGenSteps'[Len(AllocatedGenSteps')] = new
                 /\ \A i \in 1..Len(AllocatedGenSteps) :
                        GenStepLess(AllocatedGenSteps[i], new)
                 /\ \A s \in 1..CurrentStep :
                        GenStepLess(BatchGenStep(s), new)]_vars

\* after a restart with a blob of generation 1 in the Keep table the queue
\* holds its GenStep, the one of LoadState and that of a second new batch
C32_Witness ==
    /\ CurrentGen = 2 /\ CurrentStep = 2
    /\ Len(AllocatedGenSteps) = 4
    /\ AllocatedGenSteps[1][1] = 1
    /\ batches[1].live /\ batches[2].live

RECURSIVE SumOfSizes(_)
SumOfSizes(sizes) == IF sizes = <<>> THEN 0 ELSE Head(sizes) + SumOfSizes(Tail(sizes))
FlagsSet(s) == {i \in 1..Len(batches[s].InFlight) : batches[s].InFlight[i]}

\* C33: in every batch the in-flight count is the number of store blobs whose
\* in-flight flag is set, AllBlobWritesCompleted is true exactly when no flag
\* is set, the total size is the sum of the sizes of the store blobs (a small
\* blob adds nothing), and an acknowledgment of a blob of the batch that is
\* accepted changes the flag of that blob and the in-flight count and nothing
\* else
C33_BatchCountsAndSize ==
    /\ [](\A s \in 1..MaxStep :
             batches[s].live =>
                 /\ batches[s].InFlightCount = Cardinality(FlagsSet(s))
                 /\ AllBlobWritesCompleted(s) <=> (FlagsSet(s) = {})
                 /\ Len(batches[s].BlobSizes) = Len(batches[s].InFlight)
                 /\ batches[s].TotalSizeBytes = SumOfSizes(batches[s].BlobSizes))
    /\ [][\A s \in 1..MaxStep, i \in 0..(MaxBatchBlobs - 1) :
             (AckOf(s, i) /\ fatal' = "none") =>
                 /\ batches' = [batches EXCEPT ![s].InFlight[i + 1] = FALSE,
                                               ![s].InFlightCount = @ - 1]
                 /\ UNCHANGED <<mgrVars, dbVars>>]_vars

\* a batch with store blobs of two bytes and of one byte and a small blob, the
\* write of the first acknowledged and that of the second in flight
C33_Witness ==
    \E s \in 1..MaxStep :
        /\ batches[s].live
        /\ batches[s].BlobSizes = <<2, 1>>
        /\ batches[s].InFlight = <<FALSE, TRUE>>
        /\ batches[s].InFlightCount = 1
        /\ batches[s].TotalSizeBytes = 3
        /\ batches[s].SmallBlobs = 1
        /\ fatal = "none"

\* C34: while the process runs, CounterToGroupInFlight holds exactly the
\* counters of the requests of the round in flight that are not acknowledged,
\* each with the group of its request; it is empty when no round is in flight
\* and has as many entries as PerGroupGCListsInFlight
C34_CountersOfUnacknowledged ==
    fatal = "none" =>
        /\ DOMAIN CounterToGroupInFlight = Outstanding
        /\ \A r \in requests : r.counter \in DOMAIN CounterToGroupInFlight =>
               CounterToGroupInFlight[r.counter] = r.group
        /\ ~RoundInFlight => CounterToGroupInFlight = EmptyMap
        /\ Cardinality(DOMAIN CounterToGroupInFlight)
               = Cardinality(DOMAIN PerGroupGCListsInFlight)

\* the round in flight spans the history entries of two or more groups
MultiGroupRound ==
    /\ RoundInFlight
    /\ Cardinality(CoveringGroups(LastCollectedGenStep[1],
                                  CollectGenStepInFlight[1])) >= 2

\* C35: in a round of two or more groups the successful acknowledgment of any
\* outstanding request of the round, in any order, is accepted with no fatal
\* assertion and removes the lists of the group of that request and of no
\* other group
C35_AcksInAnyOrder ==
    [][\A r \in requests :
          (MultiGroupRound /\ OnGCResult(r.counter)) =>
              /\ fatal' = "none"
              /\ PerGroupGCListsInFlight' = MapErase(PerGroupGCListsInFlight, r.group)]_vars

\* C36: every blob of the persisted Keep table has a GenStep strictly greater
\* than the persisted barrier, at every moment, so that the Y_VERIFY of
\* LoadState on the Keep table holds after a crash at any point
C36_KeepTableAboveBarrier ==
    /\ \A b \in dbKeep : GenStepLess(dbBarrier, BlobGenStep(b))
    /\ fatal # "LoadState"

\* a round of two groups with one acknowledgment delivered and one awaited,
\* above a barrier that has moved, and blobs in the Keep table
C36_Witness ==
    /\ MultiGroupRound /\ fatal = "none"
    /\ Cardinality(DOMAIN PerGroupGCListsInFlight) = 1
    /\ Cardinality(requests) = 1
    /\ dbBarrier # <<0, 0>>
    /\ dbKeep # {}

\* C37: the two Y_VERIFY of TryMoveGCBarrier hold wherever it is called:
\* NewCollectGenStep is at or after LastCollectedGenStep, every allocation in
\* the queue, so every finished one popped from its front, has a GenStep
\* strictly greater than CollectGenStepInFlight, and no call aborts
C37_BarrierAssertionsHold ==
    /\ GenStepLessEq(LastCollectedGenStep, NewCollectGenStep)
    /\ \A i \in 1..Len(AllocatedGenSteps) :
           GenStepLess(CollectGenStepInFlight, AllocatedGenSteps[i])
    /\ TryMoveGCBarrier.verify
    /\ fatal # "TryMoveGCBarrier"

\* in generation 2, after LoadState, a round to the current GenStep (2,0) was
\* completed and the next round, to (2,1), popped the allocation of a batch
C37_Witness ==
    /\ CurrentGen = 2 /\ fatal = "none"
    /\ LastCollectedGenStep = <<2, 0>>
    /\ RoundInFlight /\ returned > 0
    /\ CollectGenStepInFlight = <<2, 1>>

\* C38: no blob has an entry in the active eviction table EvictedBlobs and in
\* the dropped table DroppedEvictedBlobs at one time, whatever sequence of
\* ExportOneToOne, DropOneToOne, UpdateOneToOne and EraseOneToOne is run
C38_EvictionTablesDisjoint ==
    DOMAIN EvictedBlobs \cap DOMAIN DroppedEvictedBlobs = {}

\* C39: the actor sends one ping request, on Start and never again, with
\* status COMPLETED and the result id of the query exactly when ExecStatus is
\* Completed or the query status is COMPLETING, and with status FAILED and no
\* result id otherwise; on the ping response it sends one TEvFinalizerResponse
\* to the parent, SUCCESS when the response reports success and INTERNAL_ERROR
\* with an issue when it does not, ends, and leaves the in-fly counter of the
\* pings at the value it had before Start
C39_OnePingOneResponse ==
    LET started == finalizer.state \in {"StateFunc", "passed"}
        completed == finalizer.ExecStatus = "Completed" \/ finalizer.Status = "COMPLETING"
    IN  /\ Len(pinger.requests) = (IF started THEN 1 ELSE 0)
        /\ \A i \in 1..Len(pinger.requests) :
               IF completed
               THEN pinger.requests[i] =
                        [result_id |-> finalizer.ResultId, status |-> "COMPLETED"]
               ELSE pinger.requests[i] =
                        [result_id |-> NoResultId, status |-> "FAILED"]
        /\ Len(parent) = (IF finalizer.state = "passed" THEN 1 ELSE 0)
        /\ Len(pinger.answers) = Len(parent)
        /\ \A i \in 1..Len(parent) :
               parent[i] = (IF pinger.answers[i]
                            THEN [issues |-> 0, status |-> "SUCCESS"]
                            ELSE [issues |-> 1, status |-> "INTERNAL_ERROR"])
        /\ pingCounters.InFly =
               pinger.others + (IF finalizer.state = "StateFunc" THEN 1 ELSE 0)

\* an actor of a query that failed in execution while COMPLETING has sent
\* COMPLETED with the result id, got a failed ping response, and ended
C39_Witness ==
    /\ finalizer.state = "passed"
    /\ finalizer.ExecStatus = "Failed" /\ finalizer.Status = "COMPLETING"
    /\ pinger.requests = << [result_id |-> finalizer.ResultId, status |-> "COMPLETED"] >>
    /\ finalizer.ResultId # NoResultId
    /\ pinger.answers = <<FALSE>>
    /\ parent = << [issues |-> 1, status |-> "INTERNAL_ERROR"] >>
    /\ pinger.others = 1 /\ pingCounters.InFly = 1

====
